---- MODULE Spec2Model ----
(***************************************************************************)
(* Model of the Interactive Brokers flex query client (src/app.py).        *)
(*                                                                         *)
(* get_flex_statement runs load_config, send_flex_request (which decodes   *)
(* the acknowledgement with parse_flex_response), wait_for_statement_ready,*)
(* download_flex_statement and save_statement_to_file in sequence; any     *)
(* exception ends the invocation.                                          *)
(*                                                                         *)
(* Python values are tagged records: PyNone, PyStr(s), PyDate(y, m, d),    *)
(* Path(p).  Opaque strings are TLA+ strings; date strings are tuples of   *)
(* one-character strings because the code edits them character by          *)
(* character.  Byte strings are tuples of byte values.                     *)
(***************************************************************************)
EXTENDS Integers, Sequences, FiniteSets, TLC

VARIABLES
    env,            \* process environment: TOKEN and QUERY_ID
    fs,             \* file system: existing directories and files
    invocation,     \* number of the current call of get_flex_statement
    pc,             \* position of the current call
    args,           \* arguments of the current call
    output_path,    \* local: the Path the statement is saved to
    config,         \* local: result of load_config
    reference_code, \* local: result of send_flex_request
    content,        \* local: result of download_flex_statement
    outcome,        \* how the call ended: returned value or raised exception
    calls,          \* HTTP calls issued by the current call, in order
    sleeps,         \* time.sleep durations of the current call, in order
    disk_ops,       \* mkdir and write_bytes attempts of the current call, in order
    xml_text,       \* decoder harness: the body handed to parse_flex_response
    decoded,        \* decoder harness: what parse_flex_response did with it
    date_args,      \* request harness: start_date and end_date handed to send_flex_request
    sent_params,    \* request harness: the send_params it built from them
    caller,         \* who calls get_flex_statement: the command line or a program
    process,        \* the command-line process: running, or exited with a status
    earlier,        \* reference codes of the earlier calls of get_flex_statement
    fs_at_entry     \* the file system as the current call found it

vars == <<env, fs, invocation, pc, args, output_path, config, reference_code,
          content, outcome, calls, sleeps, disk_ops, xml_text, decoded,
          date_args, sent_params, caller, process, earlier, fs_at_entry>>

pipeline_vars == <<env, fs, invocation, pc, args, output_path, config,
                   reference_code, content, outcome, calls, sleeps,
                   disk_ops, caller, process, earlier, fs_at_entry>>

harness_vars == <<xml_text, decoded, date_args, sent_params>>

context_vars == <<caller, process, earlier, fs_at_entry>>

-----------------------------------------------------------------------------
(* Bounds of the model *)

MaxChildren == 3
MaxPayloadLen == 1
MaxInvocations == 2

-----------------------------------------------------------------------------
(* Python values *)

PyNone == [type |-> "NoneType"]
PyStr(s) == [type |-> "str", v |-> s]
PyDate(y, m, d) == [type |-> "date", year |-> y, month |-> m, day |-> d]
PyBytes(b) == [type |-> "bytes", v |-> b]
Path(p) == [type |-> "Path", v |-> p]

\* Python truthiness of None, str and date values
Truthy(x) == /\ x.type # "NoneType"
             /\ (x.type = "str" => Len(x.v) > 0)

\* str(x) as an f-string renders it
Format(x) == IF x.type = "NoneType" THEN "None" ELSE x.v

\* How a call ends
Returned(v) == [state |-> "returned", value |-> v]
Raised(t, m) == [state |-> "raised", exc |-> [type |-> t, msg |-> m]]
Pending == [state |-> "pending"]

-----------------------------------------------------------------------------
(* The acknowledgement envelope and its decoder *)

Tags == {"Status", "ReferenceCode", "Message"}
Texts == {"", "Success", "ABC123"}

\* A top-level child element as it stands in the document: tag and character
\* content.  Unrecognised elements carry one content only.
Children == {c \in [tag : Tags, content : Texts] :
                c.tag = "Message" => c.content = "ABC123"}

SeqsUpTo(S, n) == UNION {[1..k -> S] : k \in 0..n}

\* Response bodies: documents that are not well-formed XML, and well-formed
\* ones with up to MaxChildren top-level children.
Bodies == {[wellformed |-> FALSE, children |-> <<>>]} \cup
          {[wellformed |-> TRUE, children |-> cs] : cs \in SeqsUpTo(Children, MaxChildren)}

\* Element.text: None for an element without character content
ElementText(c) == IF c.content = "" THEN PyNone ELSE PyStr(c.content)

\* ET.fromstring: the root's children, or ParseError
ET_fromstring(body) ==
    IF body.wellformed
    THEN Returned([i \in 1..Len(body.children) |->
                     [tag |-> body.children[i].tag,
                      text |-> ElementText(body.children[i])]])
    ELSE Raised("ParseError", "not well-formed")

\* Variant: the loop stops at the first element it does not recognise
RECURSIVE ScanChildren_stop_at_unknown(_, _, _, _)
ScanChildren_stop_at_unknown(root, i, status, refcode) ==
    IF i > Len(root) THEN [status |-> status, reference_code |-> refcode]
    ELSE IF root[i].tag = "Status"
         THEN ScanChildren_stop_at_unknown(root, i + 1, root[i].text, refcode)
    ELSE IF root[i].tag = "ReferenceCode"
         THEN ScanChildren_stop_at_unknown(root, i + 1, status, root[i].text)
    ELSE [status |-> status, reference_code |-> refcode]

\* Variant: a reference code once found is kept
RECURSIVE ScanChildren_first_reference_code(_, _, _, _)
ScanChildren_first_reference_code(root, i, status, refcode) ==
    IF i > Len(root) THEN [status |-> status, reference_code |-> refcode]
    ELSE IF root[i].tag = "Status"
         THEN ScanChildren_first_reference_code(root, i + 1, root[i].text, refcode)
    ELSE IF root[i].tag = "ReferenceCode" /\ refcode = PyNone
         THEN ScanChildren_first_reference_code(root, i + 1, status, root[i].text)
    ELSE ScanChildren_first_reference_code(root, i + 1, status, refcode)

\* The for loop of parse_flex_response from child i on
RECURSIVE ScanChildren(_, _, _, _)
ScanChildren(root, i, status, refcode) ==
    IF i > Len(root) THEN [status |-> status, reference_code |-> refcode]
    ELSE IF root[i].tag = "Status"
         THEN ScanChildren(root, i + 1, root[i].text, refcode)
    ELSE IF root[i].tag = "ReferenceCode"
         THEN ScanChildren(root, i + 1, status, root[i].text)
    ELSE ScanChildren(root, i + 1, status, refcode)

\* Variant: the reference code is not checked before it is returned
parse_flex_response_no_refcode_check(body) ==
    LET parsed == ET_fromstring(body) IN
    IF parsed.state = "raised"
    THEN Raised("ValueError", "Invalid XML response: " \o parsed.exc.msg)
    ELSE LET found == ScanChildren(parsed.value, 1, PyNone, PyNone) IN
         IF found.status # PyStr("Success")
         THEN Raised("RuntimeError",
                     "Flex request failed with status: " \o Format(found.status))
         ELSE Returned(found.reference_code)

\* Variant: the reference code is checked before the status
parse_flex_response_refcode_first(body) ==
    LET parsed == ET_fromstring(body) IN
    IF parsed.state = "raised"
    THEN Raised("ValueError", "Invalid XML response: " \o parsed.exc.msg)
    ELSE LET found == ScanChildren(parsed.value, 1, PyNone, PyNone) IN
         IF ~Truthy(found.reference_code)
         THEN Raised("ValueError", "No reference code found in response")
         ELSE IF found.status # PyStr("Success")
         THEN Raised("RuntimeError",
                     "Flex request failed with status: " \o Format(found.status))
         ELSE Returned(found.reference_code)

\* Variant: ET.ParseError is not caught
parse_flex_response_uncaught(body) ==
    LET parsed == ET_fromstring(body) IN
    IF parsed.state = "raised"
    THEN parsed
    ELSE LET found == ScanChildren(parsed.value, 1, PyNone, PyNone) IN
         IF found.status # PyStr("Success")
         THEN Raised("RuntimeError",
                     "Flex request failed with status: " \o Format(found.status))
         ELSE IF ~Truthy(found.reference_code)
         THEN Raised("ValueError", "No reference code found in response")
         ELSE Returned(found.reference_code)

parse_flex_response(body) ==
    LET parsed == ET_fromstring(body) IN
    IF parsed.state = "raised"
    THEN Raised("ValueError", "Invalid XML response: " \o parsed.exc.msg)
    ELSE LET found == ScanChildren(parsed.value, 1, PyNone, PyNone) IN
         IF found.status # PyStr("Success")
         THEN Raised("RuntimeError",
                     "Flex request failed with status: " \o Format(found.status))
         ELSE IF ~Truthy(found.reference_code)
         THEN Raised("ValueError", "No reference code found in response")
         ELSE Returned(found.reference_code)

-----------------------------------------------------------------------------
(* Configuration *)

version == 3
base_url == "https://ndcdyn.interactivebrokers.com/AccountManagement/FlexWebService"

\* os.getenv gives None for an unset variable
EnvValues(s) == {PyNone, PyStr(""), PyStr(s)}
Environments == [TOKEN : EnvValues("tok123"), QUERY_ID : EnvValues("qid456")]

\* Variant: only the token is required
load_config_token_only(e) ==
    LET cfg == [token |-> e.TOKEN, query_id |-> e.QUERY_ID,
                version |-> version, base_url |-> base_url] IN
    IF ~Truthy(cfg.token)
    THEN Raised("ValueError",
                "Missing required environment variables: TOKEN and QUERY_ID")
    ELSE Returned(cfg)

load_config(e) ==
    LET cfg == [token |-> e.TOKEN, query_id |-> e.QUERY_ID,
                version |-> version, base_url |-> base_url] IN
    IF ~Truthy(cfg.token) \/ ~Truthy(cfg.query_id)
    THEN Raised("ValueError",
                "Missing required environment variables: TOKEN and QUERY_ID")
    ELSE Returned(cfg)

-----------------------------------------------------------------------------
(* Date arguments *)

Digit(n) == CASE n = 0 -> "0" [] n = 1 -> "1" [] n = 2 -> "2" [] n = 3 -> "3"
              [] n = 4 -> "4" [] n = 5 -> "5" [] n = 6 -> "6" [] n = 7 -> "7"
              [] n = 8 -> "8" [] n = 9 -> "9"

\* Decimal digits of n without padding
RECURSIVE Decimal(_)
Decimal(n) == IF n < 10 THEN <<Digit(n)>>
              ELSE Append(Decimal(n \div 10), Digit(n % 10))

\* %m and %d: two digits, zero padded
TwoDigits(n) == <<Digit(n \div 10), Digit(n % 10)>>

\* date.strftime("%Y%m%d"): the C library's %Y does not pad the year
strftime_Ymd(d) == Decimal(d.year) \o TwoDigits(d.month) \o TwoDigits(d.day)

\* Variant: str.replace("-", "", 1), only the first hyphen goes
RECURSIVE replace_hyphens_first_only(_)
replace_hyphens_first_only(s) ==
    IF s = <<>> THEN <<>>
    ELSE IF Head(s) = "-" THEN Tail(s)
    ELSE <<Head(s)>> \o replace_hyphens_first_only(Tail(s))

\* str.replace("-", "")
RECURSIVE replace_hyphens(_)
replace_hyphens(s) ==
    IF s = <<>> THEN <<>>
    ELSE IF Head(s) = "-" THEN replace_hyphens(Tail(s))
    ELSE <<Head(s)>> \o replace_hyphens(Tail(s))

\* The value send_flex_request puts under StartDate for a truthy start_date
start_date_param(d) ==
    IF d.type = "date" THEN strftime_Ymd(d)
    ELSE IF d.type = "str" THEN replace_hyphens(d.v)
    ELSE d

\* The value send_flex_request puts under EndDate for a truthy end_date
end_date_param(d) ==
    IF d.type = "date" THEN strftime_Ymd(d)
    ELSE IF d.type = "str" THEN replace_hyphens(d.v)
    ELSE d

DateArgs == {PyNone,
             PyDate(2024, 7, 1),
             PyStr(<<"2", "0", "2", "4", "-", "0", "1", "-", "3", "1">>)}

-----------------------------------------------------------------------------
(* The two HTTP calls *)

timeout == 2

\* requests.RequestException raised by requests.get or raise_for_status
TransportFailures == {"ConnectionError", "Timeout", "HTTPError"}

\* What the service may answer to SendRequest: the bodies with at most the two
\* named fields, in either order, or any two other children
AckBodies == {b \in Bodies : Len(b.children) <= Cardinality({"Status", "ReferenceCode"})}

SendReplies == [kind : TransportFailures] \cup
               {[kind |-> "ok", text |-> b] : b \in AckBodies}

\* Variant: the end date is looked at only when there is a start date
send_params_nested(cfg, start_date, end_date) ==
    LET base == [k \in {"t", "q", "v"} |->
                    CASE k = "t" -> cfg.token
                      [] k = "q" -> cfg.query_id
                      [] k = "v" -> cfg.version]
        withStart == ("StartDate" :> start_date_param(start_date)) @@ base
    IN  IF ~Truthy(start_date) THEN base
        ELSE IF Truthy(end_date)
        THEN ("EndDate" :> end_date_param(end_date)) @@ withStart
        ELSE withStart

send_params(cfg, start_date, end_date) ==
    LET base == [k \in {"t", "q", "v"} |->
                    CASE k = "t" -> cfg.token
                      [] k = "q" -> cfg.query_id
                      [] k = "v" -> cfg.version]
        withStart == IF Truthy(start_date)
                     THEN ("StartDate" :> start_date_param(start_date)) @@ base
                     ELSE base
    IN  IF Truthy(end_date)
        THEN ("EndDate" :> end_date_param(end_date)) @@ withStart
        ELSE withStart

\* Variant: raise_for_status is not called, so the body of an HTTP error
\* answer (not an XML document) reaches the decoder
send_flex_request_no_raise_for_status(cfg, start_date, end_date, reply) ==
    [call   |-> [url |-> cfg.base_url \o "/SendRequest",
                 params |-> send_params(cfg, start_date, end_date),
                 allow_redirects |-> TRUE,
                 timeout |-> timeout,
                 reply |-> reply],
     result |-> IF reply.kind = "HTTPError"
                THEN parse_flex_response([wellformed |-> FALSE, children |-> <<>>])
                ELSE IF reply.kind \in TransportFailures
                THEN Raised("RuntimeError",
                            "Failed to send flex request: " \o reply.kind)
                ELSE parse_flex_response(reply.text)]

\* send_flex_request against a service that answers with reply: the HTTP
\* call it issues (with the answer it got) and how it ends
send_flex_request(cfg, start_date, end_date, reply) ==
    [call   |-> [url |-> cfg.base_url \o "/SendRequest",
                 params |-> send_params(cfg, start_date, end_date),
                 allow_redirects |-> TRUE,
                 timeout |-> timeout,
                 reply |-> reply],
     result |-> IF reply.kind \in TransportFailures
                THEN Raised("RuntimeError",
                            "Failed to send flex request: " \o reply.kind)
                ELSE parse_flex_response(reply.text)]

wait_time == 5

ByteValues == {10, 65}
Payloads == SeqsUpTo(ByteValues, MaxPayloadLen)

GetReplies == [kind : TransportFailures] \cup
              {[kind |-> "ok", content |-> PyBytes(b)] : b \in Payloads}

\* Variant: q is the query identifier, as in send_params
receive_params_query_id(cfg, refcode) ==
    [k \in {"t", "q", "v"} |->
        CASE k = "t" -> cfg.token
          [] k = "q" -> cfg.query_id
          [] k = "v" -> cfg.version]

receive_params(cfg, refcode) ==
    [k \in {"t", "q", "v"} |->
        CASE k = "t" -> cfg.token
          [] k = "q" -> refcode
          [] k = "v" -> cfg.version]

\* Variant: a transport failure is swallowed and an empty statement returned
download_flex_statement_swallow(cfg, refcode, reply) ==
    [call   |-> [url |-> cfg.base_url \o "/GetStatement",
                 params |-> receive_params(cfg, refcode),
                 allow_redirects |-> TRUE,
                 timeout |-> timeout,
                 reply |-> reply],
     result |-> IF reply.kind \in TransportFailures
                THEN Returned(PyBytes(<<>>))
                ELSE Returned(reply.content)]

\* download_flex_statement against a service that answers with reply
download_flex_statement(cfg, refcode, reply) ==
    [call   |-> [url |-> cfg.base_url \o "/GetStatement",
                 params |-> receive_params(cfg, refcode),
                 allow_redirects |-> TRUE,
                 timeout |-> timeout,
                 reply |-> reply],
     result |-> IF reply.kind \in TransportFailures
                THEN Raised("RuntimeError",
                            "Failed to download flex statement: " \o reply.kind)
                ELSE Returned(reply.content)]

-----------------------------------------------------------------------------
(* The output file *)

DefaultPath == "data/processed/flex_statement.csv"
OutputArgs == {PyNone, PyStr("out/january_2024.csv")}

\* The directories path.parent.mkdir(parents=True) has to find or make
ParentDirs(p) == IF p = DefaultPath THEN {"data", "data/processed"} ELSE {"out"}

EmptyDisk == [dirs |-> {}, files |-> [p \in {} |-> <<>>]]

\* save_statement_to_file on disk state disk, where the operating system lets
\* mkdir succeed or not, open succeed or not, and lets written bytes of the
\* content through before a write error (all of them when there is none).
SaveFaults == [mkdir : BOOLEAN, open : BOOLEAN, written : 0..MaxPayloadLen + 1]

save_statement_to_file(data, file_path, disk, fault) ==
    LET path == Path(file_path.v)
        made == [disk EXCEPT !.dirs = @ \cup ParentDirs(path.v)]
        n == IF fault.written < Len(data.v) THEN fault.written ELSE Len(data.v)
        wrote == [made EXCEPT !.files = (path.v :> SubSeq(data.v, 1, n)) @@ @]
        mkdir == [op |-> "mkdir", path |-> path.v, data |-> <<>>]
        write == [op |-> "write_bytes", path |-> path.v, data |-> data.v]
    IN  IF ~fault.mkdir
        THEN [disk |-> disk, ops |-> <<mkdir>>,
              result |-> Raised("OSError", "mkdir")]
        ELSE IF ~fault.open
        THEN [disk |-> made, ops |-> <<mkdir, write>>,
              result |-> Raised("RuntimeError", "Failed to save file: open")]
        ELSE IF n < Len(data.v)
        THEN [disk |-> wrote, ops |-> <<mkdir, write>>,
              result |-> Raised("RuntimeError", "Failed to save file: write")]
        ELSE [disk |-> wrote, ops |-> <<mkdir, write>>,
              result |-> Returned(PyNone)]

-----------------------------------------------------------------------------
(* get_flex_statement, step by step *)

Arguments == [output_path : OutputArgs, start_date : DateArgs, end_date : DateArgs]

NoCall == [state |-> "idle"]

NoDates == [start_date |-> PyNone, end_date |-> PyNone]

\* The command-line process
Running == [state |-> "running"]
Exited(status, line) == [state |-> "exited", status |-> status, printed |-> line]

Init ==
    /\ env \in Environments
    /\ fs = EmptyDisk
    /\ invocation = 1
    /\ pc = "Idle"
    /\ args \in Arguments
    /\ output_path = PyNone
    /\ config = PyNone
    /\ reference_code = PyNone
    /\ content = PyNone
    /\ outcome = Pending
    /\ calls = <<>>
    /\ sleeps = <<>>
    /\ disk_ops = <<>>
    /\ xml_text = [wellformed |-> FALSE, children |-> <<>>]
    /\ decoded = NoCall
    /\ date_args = NoDates
    /\ sent_params = NoCall
    /\ caller \in {"command line", "program"}
    /\ caller = "command line" =>
           args.start_date.type # "date" /\ args.end_date.type # "date"
    /\ process = Running
    /\ earlier = <<>>
    /\ fs_at_entry = fs

\* An exception leaves get_flex_statement
Fail(result) ==
    /\ pc' = "Failed"
    /\ outcome' = result

\* Entry: the output path, then load_config
LoadConfig ==
    /\ pc = "Idle"
    /\ output_path' = IF args.output_path = PyNone
                      THEN Path(DefaultPath)
                      ELSE Path(args.output_path.v)
    /\ LET r == load_config(env) IN
       IF r.state = "raised"
       THEN Fail(r) /\ UNCHANGED config
       ELSE /\ config' = r.value
            /\ pc' = "Configured"
            /\ UNCHANGED outcome
    /\ UNCHANGED <<env, fs, invocation, args, reference_code, content, calls,
                   sleeps, disk_ops, harness_vars,
                   context_vars>>

\* Variant: a reference code obtained by an earlier call is used again
SendRequest_cached_token ==
    /\ pc = "Configured"
    /\ \E reply \in SendReplies :
         LET r == send_flex_request(config, args.start_date, args.end_date, reply) IN
         /\ calls' = Append(calls, r.call)
         /\ IF r.result.state = "raised"
            THEN Fail(r.result) /\ UNCHANGED reference_code
            ELSE /\ reference_code' =
                        IF \E i \in 1..Len(earlier) : earlier[i] # PyNone
                        THEN earlier[CHOOSE i \in 1..Len(earlier) : earlier[i] # PyNone]
                        ELSE r.result.value
                 /\ pc' = "Submitted"
                 /\ UNCHANGED outcome
    /\ UNCHANGED <<env, fs, invocation, args, output_path, config, content,
                   sleeps, disk_ops, harness_vars, context_vars>>

SendRequest ==
    /\ pc = "Configured"
    /\ \E reply \in SendReplies :
         LET r == send_flex_request(config, args.start_date, args.end_date, reply) IN
         /\ calls' = Append(calls, r.call)
         /\ IF r.result.state = "raised"
            THEN Fail(r.result) /\ UNCHANGED reference_code
            ELSE /\ reference_code' = r.result.value
                 /\ pc' = "Submitted"
                 /\ UNCHANGED outcome
    /\ UNCHANGED <<env, fs, invocation, args, output_path, config, content,
                   sleeps, disk_ops, harness_vars,
                   context_vars>>

\* Variant: the pause is left out
wait_for_statement_ready_skipped ==
    /\ pc = "Submitted"
    /\ pc' = "Waited"
    /\ UNCHANGED <<env, fs, invocation, args, output_path, config,
                   reference_code, content, outcome, calls, sleeps, disk_ops,
                   harness_vars,
                   context_vars>>

\* Variant: the pause never ends
wait_for_statement_ready_forever ==
    /\ pc = "Submitted"
    /\ UNCHANGED vars

wait_for_statement_ready ==
    /\ pc = "Submitted"
    /\ sleeps' = Append(sleeps, wait_time)
    /\ pc' = "Waited"
    /\ UNCHANGED <<env, fs, invocation, args, output_path, config,
                   reference_code, content, outcome, calls, disk_ops,
                   harness_vars,
                   context_vars>>

\* Variant: the download is tried again after a transport failure
GetStatement_retry ==
    /\ pc = "Waited"
    /\ \E reply \in GetReplies :
         LET r == download_flex_statement(config, reference_code, reply) IN
         /\ calls' = Append(calls, r.call)
         /\ IF r.result.state = "raised"
            THEN UNCHANGED <<pc, outcome, content>>
            ELSE /\ content' = r.result.value
                 /\ pc' = "Fetched"
                 /\ UNCHANGED outcome
    /\ UNCHANGED <<env, fs, invocation, args, output_path, config,
                   reference_code, sleeps, disk_ops, harness_vars,
                   context_vars>>

GetStatement ==
    /\ pc = "Waited"
    /\ \E reply \in GetReplies :
         LET r == download_flex_statement(config, reference_code, reply) IN
         /\ calls' = Append(calls, r.call)
         /\ IF r.result.state = "raised"
            THEN Fail(r.result) /\ UNCHANGED content
            ELSE /\ content' = r.result.value
                 /\ pc' = "Fetched"
                 /\ UNCHANGED outcome
    /\ UNCHANGED <<env, fs, invocation, args, output_path, config,
                   reference_code, sleeps, disk_ops, harness_vars,
                   context_vars>>

\* save_statement_to_file, then return output_path
SaveStatement ==
    /\ pc = "Fetched"
    /\ \E fault \in SaveFaults :
         LET r == save_statement_to_file(content, output_path, fs, fault) IN
         /\ fs' = r.disk
         /\ disk_ops' = disk_ops \o r.ops
         /\ IF r.result.state = "raised"
            THEN Fail(r.result)
            ELSE /\ pc' = "Saved"
                 /\ outcome' = Returned(output_path)
    /\ UNCHANGED <<env, invocation, args, output_path, config, reference_code,
                   content, calls, sleeps, harness_vars,
                   context_vars>>

\* The caller calls get_flex_statement again
Reinvoke ==
    /\ caller = "program"
    /\ pc \in {"Saved", "Failed"}
    /\ invocation < MaxInvocations
    /\ invocation' = invocation + 1
    /\ args' \in Arguments
    /\ pc' = "Idle"
    /\ output_path' = PyNone
    /\ config' = PyNone
    /\ reference_code' = PyNone
    /\ content' = PyNone
    /\ outcome' = Pending
    /\ calls' = <<>>
    /\ sleeps' = <<>>
    /\ disk_ops' = <<>>
    /\ earlier' = Append(earlier, reference_code)
    /\ fs_at_entry' = fs
    /\ UNCHANGED <<env, fs, harness_vars, caller, process>>

\* Variant: the error is printed but the process ends normally
main_exit_always_zero ==
    /\ caller = "command line"
    /\ process = Running
    /\ pc \in {"Saved", "Failed"}
    /\ process' = IF outcome.state = "returned"
                  THEN Exited(0, "Flex statement successfully downloaded to: "
                                    \o outcome.value.v)
                  ELSE Exited(0, "Error: " \o outcome.exc.msg)
    /\ UNCHANGED <<env, fs, invocation, pc, args, output_path, config,
                   reference_code, content, outcome, calls, sleeps, disk_ops,
                   harness_vars, caller, earlier, fs_at_entry>>

\* The command line, after get_flex_statement: the path is printed and the
\* process ends normally, or the exception is printed and it exits with 1.
\* The check mark and the cross that start the printed lines are left out.
main_exit ==
    /\ caller = "command line"
    /\ process = Running
    /\ pc \in {"Saved", "Failed"}
    /\ process' = IF outcome.state = "returned"
                  THEN Exited(0, "Flex statement successfully downloaded to: "
                                    \o outcome.value.v)
                  ELSE Exited(1, "Error: " \o outcome.exc.msg)
    /\ UNCHANGED <<env, fs, invocation, pc, args, output_path, config,
                   reference_code, content, outcome, calls, sleeps, disk_ops,
                   harness_vars, caller, earlier, fs_at_entry>>

Next ==
    \/ LoadConfig
    \/ SendRequest
    \/ wait_for_statement_ready
    \/ GetStatement
    \/ SaveStatement
    \/ Reinvoke
    \/ main_exit

Spec == Init /\ [][Next]_vars

\* The steps of get_flex_statement are blocking calls that end: each HTTP call
\* answers or fails within its timeout, the pause elapses, and the file
\* operations return.
FairSpec ==
    /\ Spec
    /\ WF_vars(LoadConfig)
    /\ WF_vars(SendRequest)
    /\ WF_vars(wait_for_statement_ready)
    /\ WF_vars(GetStatement)
    /\ WF_vars(SaveStatement)

-----------------------------------------------------------------------------
(* The decoder on its own: every body of Bodies is handed to it once *)

InitDecode ==
    /\ env = [TOKEN |-> PyNone, QUERY_ID |-> PyNone]
    /\ fs = EmptyDisk
    /\ invocation = 0
    /\ pc = "Idle"
    /\ args = [output_path |-> PyNone, start_date |-> PyNone, end_date |-> PyNone]
    /\ output_path = PyNone
    /\ config = PyNone
    /\ reference_code = PyNone
    /\ content = PyNone
    /\ outcome = Pending
    /\ calls = <<>>
    /\ sleeps = <<>>
    /\ disk_ops = <<>>
    /\ xml_text \in Bodies
    /\ decoded = NoCall
    /\ date_args = NoDates
    /\ sent_params = NoCall
    /\ caller = "program"
    /\ process = Running
    /\ earlier = <<>>
    /\ fs_at_entry = fs

Decode ==
    /\ decoded = NoCall
    /\ decoded' = parse_flex_response(xml_text)
    /\ UNCHANGED <<pipeline_vars, xml_text, date_args, sent_params>>

NextDecode == Decode

SpecDecode == InitDecode /\ [][NextDecode]_vars

-----------------------------------------------------------------------------
(* The request parameters on their own: send_flex_request's send_params for   *)
(* every pair of date arguments of DateInputs                                 *)

\* Four digits, zero padded
FourDigits(n) == <<Digit(n \div 1000), Digit((n \div 100) % 10),
                   Digit((n \div 10) % 10), Digit(n % 10)>>

CalendarDates == {PyDate(y, m, d) : y \in {999, 2024}, m \in {1, 12}, d \in {1, 31}}

\* date.isoformat(): YYYY-MM-DD
isoformat(d) == FourDigits(d.year) \o <<"-">> \o TwoDigits(d.month)
                    \o <<"-">> \o TwoDigits(d.day)

\* Strings that are not of the YYYY-MM-DD shape, and the empty string
OtherStrings ==
    {<<"2", "0", "2", "4", "0", "1", "3", "1">>,
     <<"2", "0", "2", "4", "/", "0", "1", "/", "3", "1">>,
     <<"3", "1", "-", "0", "1", "-", "2", "0", "2", "4">>,
     <<"J", "a", "n", "-", "3", "1">>,
     <<>>}

DateInputs == {PyNone} \cup CalendarDates
                  \cup {PyStr(isoformat(d)) : d \in CalendarDates}
                  \cup {PyStr(s) : s \in OtherStrings}

HarnessConfig == load_config([TOKEN |-> PyStr("tok123"), QUERY_ID |-> PyStr("qid456")]).value

InitDates ==
    /\ env = [TOKEN |-> PyStr("tok123"), QUERY_ID |-> PyStr("qid456")]
    /\ fs = EmptyDisk
    /\ invocation = 0
    /\ pc = "Idle"
    /\ args = [output_path |-> PyNone, start_date |-> PyNone, end_date |-> PyNone]
    /\ output_path = PyNone
    /\ config = PyNone
    /\ reference_code = PyNone
    /\ content = PyNone
    /\ outcome = Pending
    /\ calls = <<>>
    /\ sleeps = <<>>
    /\ disk_ops = <<>>
    /\ xml_text = [wellformed |-> FALSE, children |-> <<>>]
    /\ decoded = NoCall
    /\ date_args \in [start_date : DateInputs, end_date : DateInputs]
    /\ sent_params = NoCall
    /\ caller = "program"
    /\ process = Running
    /\ earlier = <<>>
    /\ fs_at_entry = fs

BuildParams ==
    /\ sent_params = NoCall
    /\ sent_params' = send_params(HarnessConfig, date_args.start_date,
                                  date_args.end_date)
    /\ UNCHANGED <<pipeline_vars, xml_text, decoded, date_args>>

NextDates == BuildParams

SpecDates == InitDates /\ [][NextDates]_vars

-----------------------------------------------------------------------------
(* Properties of the pipeline (Spec) *)

SendUrl == base_url \o "/SendRequest"
GetUrl == base_url \o "/GetStatement"

SendCalls == {i \in 1..Len(calls) : calls[i].url = SendUrl}
GetCalls == {i \in 1..Len(calls) : calls[i].url = GetUrl}

\* The path the caller asked for
RequestedPath == IF args.output_path = PyNone THEN DefaultPath
                 ELSE args.output_path.v

\* The service answered the submit call with a body whose decoding is a
\* reference code
SubmitAccepted ==
    /\ Len(calls) >= 1
    /\ calls[1].url = SendUrl
    /\ calls[1].reply.kind = "ok"
    /\ reference_code # PyNone

\* C1: when get_flex_statement has saved the statement, the get-statement call
\* was made with q = the reference code of the acknowledgement, t and v from
\* the configuration, the file at the requested path holds exactly the payload
\* the service returned, and that path is returned.
C1_EndToEnd ==
    pc = "Saved" =>
        /\ Len(calls) = 2
        /\ SubmitAccepted
        /\ calls[2].url = GetUrl
        /\ calls[2].reply.kind = "ok"
        /\ \E i \in 1..Len(calls[1].reply.text.children) :
             LET c == calls[1].reply.text.children[i] IN
             /\ c.tag = "ReferenceCode"
             /\ calls[2].params["q"] = PyStr(c.content)
        /\ calls[2].params["q"] = reference_code
        /\ calls[2].params["t"] = env.TOKEN
        /\ calls[2].params["v"] = version
        /\ DOMAIN calls[2].params = {"t", "q", "v"}
        /\ output_path = Path(RequestedPath)
        /\ RequestedPath \in DOMAIN fs.files
        /\ fs.files[RequestedPath] = calls[2].reply.content.v
        /\ outcome = Returned(Path(RequestedPath))

C1_Witness ==
    /\ pc = "Saved"
    /\ reference_code = PyStr("ABC123")
    /\ calls[2].reply.content.v = <<>>
    /\ args.output_path # PyNone
    /\ fs.files[RequestedPath] = <<>>

\* The steps of one invocation, in the order the state machine allows
Transitions ==
    {<<"Idle", "Configured">>, <<"Configured", "Submitted">>,
     <<"Submitted", "Waited">>, <<"Waited", "Fetched">>, <<"Fetched", "Saved">>}
    \cup {<<p, "Failed">> : p \in {"Idle", "Configured", "Submitted", "Waited", "Fetched"}}

C2_Positions ==
    /\ pc \in {"Idle", "Configured"} => calls = <<>> /\ sleeps = <<>>
    /\ pc = "Submitted" => Len(calls) = 1 /\ SubmitAccepted /\ sleeps = <<>>
    /\ pc = "Waited" => Len(calls) = 1 /\ SubmitAccepted /\ sleeps = <<wait_time>>
    /\ pc \in {"Fetched", "Saved"} => Len(calls) = 2 /\ GetCalls = {2}
    /\ \A i \in GetCalls : i = 2 /\ SubmitAccepted /\ sleeps = <<wait_time>>
    /\ Len(sleeps) <= 1
    /\ pc = "Failed" <=> outcome.state = "raised"

C2_Steps ==
    /\ pc' # pc => \/ <<pc, pc'>> \in Transitions /\ invocation' = invocation
                   \/ /\ pc \in {"Saved", "Failed"}
                      /\ pc' = "Idle"
                      /\ invocation' = invocation + 1
    /\ pc = "Failed" /\ invocation' = invocation =>
           UNCHANGED <<pc, calls, sleeps, disk_ops, fs, outcome>>

\* C2: one invocation goes Idle, Submitted, Waited, Fetched: the get-statement
\* call is issued only after an accepted submit and the single wait, the wait
\* happens exactly once between them, a failure leads to Failed, and in Failed
\* no further step of the invocation is taken.
C2_StateMachine == []C2_Positions /\ [][C2_Steps]_vars

C2_Witness ==
    /\ pc = "Fetched"
    /\ Len(calls) = 2
    /\ sleeps = <<wait_time>>

SubmitTransportFailed ==
    /\ Len(calls) >= 1
    /\ calls[1].url = SendUrl
    /\ calls[1].reply.kind \in TransportFailures

\* C3: a transport failure of the submit call ends the invocation with the
\* submit transport error; no wait, no get-statement call and no file write
\* are performed in it.
C3_SubmitTransport ==
    SubmitTransportFailed =>
        /\ pc = "Failed"
        /\ outcome = Raised("RuntimeError",
                            "Failed to send flex request: " \o calls[1].reply.kind)
        /\ Len(calls) = 1
        /\ sleeps = <<>>
        /\ disk_ops = <<>>

C3_Witness ==
    /\ SubmitTransportFailed
    /\ calls[1].reply.kind = "HTTPError"
    /\ pc = "Failed"

GetTransportFailed ==
    /\ Len(calls) >= 2
    /\ calls[2].url = GetUrl
    /\ calls[2].reply.kind \in TransportFailures

\* C4: a transport failure of the get-statement call ends the invocation with
\* the fetch transport error: the reference token is used for that one call
\* only, no second submit is issued and nothing is written.
C4_FetchTransport ==
    GetTransportFailed =>
        /\ pc = "Failed"
        /\ outcome = Raised("RuntimeError",
                            "Failed to download flex statement: " \o calls[2].reply.kind)
        /\ SendCalls = {1}
        /\ GetCalls = {2}
        /\ Len(calls) = 2
        /\ calls[2].params["q"] = reference_code
        /\ disk_ops = <<>>

C4_Witness ==
    /\ GetTransportFailed
    /\ calls[2].reply.kind = "Timeout"
    /\ pc = "Failed"
    /\ reference_code = PyStr("ABC123")

ConfigurationMissing == ~Truthy(env.TOKEN) \/ ~Truthy(env.QUERY_ID)

\* C5: with TOKEN or QUERY_ID unset or empty the invocation fails with the
\* configuration error and issues no HTTP call, no wait and no file write.
C5_MissingConfiguration ==
    ConfigurationMissing =>
        /\ pc \in {"Idle", "Failed"}
        /\ pc = "Failed" =>
             outcome = Raised("ValueError",
                 "Missing required environment variables: TOKEN and QUERY_ID")
        /\ calls = <<>>
        /\ sleeps = <<>>
        /\ disk_ops = <<>>

C5_Witness ==
    /\ env.TOKEN = PyStr("tok123")
    /\ env.QUERY_ID = PyStr("")
    /\ pc = "Failed"

C6_AtMostOnce ==
    /\ Cardinality(SendCalls) <= 1
    /\ Cardinality(GetCalls) <= 1
    /\ Len(calls) = Cardinality(SendCalls) + Cardinality(GetCalls)

C6_NoWayOutOfFailed ==
    pc = "Failed" =>
        \/ pc' = "Failed" /\ calls' = calls
        \/ pc' = "Idle" /\ invocation' = invocation + 1 /\ calls' = <<>>

\* C6: in every invocation at most one send-request call and at most one
\* get-statement call are issued, and Failed is left only by a new invocation.
C6_NoRetry == []C6_AtMostOnce /\ [][C6_NoWayOutOfFailed]_vars

C6_Witness ==
    /\ invocation = 2
    /\ pc = "Failed"
    /\ Len(calls) = 2

AckMalformed ==
    /\ Len(calls) >= 1
    /\ calls[1].url = SendUrl
    /\ calls[1].reply.kind = "ok"
    /\ ~calls[1].reply.text.wellformed

\* C10: a body that is not a well-formed document is decoded to the invalid
\* response failure, a ValueError and not the parser's ParseError, and the
\* invocation ends in Failed without a get-statement call.
C10_Malformed ==
    AckMalformed =>
        /\ pc = "Failed"
        /\ outcome.state = "raised"
        /\ outcome.exc.type = "ValueError"
        /\ outcome.exc.msg = "Invalid XML response: not well-formed"
        /\ parse_flex_response(calls[1].reply.text) = outcome
        /\ GetCalls = {}
        /\ Len(calls) = 1
        /\ sleeps = <<>>

C10_Witness ==
    /\ AckMalformed
    /\ pc = "Failed"

-----------------------------------------------------------------------------
(* Properties of the decoder (SpecDecode) *)

WithTag(body, tag) == {i \in 1..Len(body.children) : body.children[i].tag = tag}

\* The body has the field and each occurrence of it has content s
FieldIs(body, tag, s) ==
    /\ body.wellformed
    /\ WithTag(body, tag) # {}
    /\ \A i \in WithTag(body, tag) : body.children[i].content = s

\* The body has the field exactly once, with content s
FieldOnce(body, tag, s) ==
    /\ FieldIs(body, tag, s)
    /\ Cardinality(WithTag(body, tag)) = 1

Rejection(s) == Raised("RuntimeError", "Flex request failed with status: " \o s)

\* C7: a body with Status "Success" and a non-empty ReferenceCode is decoded to
\* that reference code, whatever the order of the two fields and whatever
\* other fields stand before, between or after them.
C7_Accepted ==
    decoded # NoCall =>
        \A r \in Texts \ {""} :
            FieldOnce(xml_text, "Status", "Success") /\ FieldOnce(xml_text, "ReferenceCode", r)
                => decoded = Returned(PyStr(r))

C7_Witness ==
    /\ decoded = Returned(PyStr("ABC123"))
    /\ Len(xml_text.children) = 3
    /\ xml_text.children[1].tag = "Message"
    /\ xml_text.children[2].tag = "ReferenceCode"
    /\ xml_text.children[3].tag = "Status"

\* C8: Status "Success" with ReferenceCode missing or empty is never accepted;
\* it fails with an error that differs from every rejection.
C8_NoReferenceCode ==
    (/\ decoded # NoCall
     /\ FieldIs(xml_text, "Status", "Success")
     /\ \/ WithTag(xml_text, "ReferenceCode") = {}
        \/ FieldIs(xml_text, "ReferenceCode", ""))
    => /\ decoded = Raised("ValueError", "No reference code found in response")
       /\ \A s \in Texts \cup {"None"} : decoded # Rejection(s)

C8_Witness ==
    /\ decoded = Raised("ValueError", "No reference code found in response")
    /\ FieldOnce(xml_text, "Status", "Success")
    /\ FieldOnce(xml_text, "ReferenceCode", "")

\* C9 as claimed: a Status with any content other than "Success" is decoded
\* to the rejection that carries that content verbatim.
C9_AsClaimed ==
    decoded # NoCall =>
        \A s \in Texts \ {"Success"} :
            FieldIs(xml_text, "Status", s) => decoded = Rejection(s)

\* C9: a Status with non-empty content other than "Success" is decoded to the
\* rejection that carries that content verbatim, with or without a
\* ReferenceCode; a Status without content is decoded to the rejection that
\* carries "None".
C9_Rejected ==
    decoded # NoCall =>
        /\ \A s \in Texts \ {"Success", ""} :
               FieldIs(xml_text, "Status", s) => decoded = Rejection(s)
        /\ FieldIs(xml_text, "Status", "") => decoded = Rejection("None")

C9_Witness ==
    /\ decoded = Rejection("ABC123")
    /\ FieldOnce(xml_text, "Status", "ABC123")
    /\ FieldOnce(xml_text, "ReferenceCode", "ABC123")

-----------------------------------------------------------------------------
(* Properties of the request parameters (SpecDates) *)

\* The compact form YYYYMMDD of a calendar date
Compact(d) == FourDigits(d.year) \o TwoDigits(d.month) \o TwoDigits(d.day)

\* C11 as claimed: a calendar date given as a date value and the same date
\* given as its YYYY-MM-DD string both produce the compact form YYYYMMDD of
\* the date as StartDate and as EndDate.
C11_AsClaimed ==
    sent_params # NoCall =>
        \A d \in CalendarDates :
            /\ date_args.start_date \in {d, PyStr(isoformat(d))}
                   => sent_params["StartDate"] = Compact(d)
            /\ date_args.end_date \in {d, PyStr(isoformat(d))}
                   => sent_params["EndDate"] = Compact(d)

\* An argument that is a date, or a string that is not empty
Given(d) == d.type = "date" \/ (d.type = "str" /\ d.v # <<>>)

\* C12: the request carries t, q and v = 3 from the configuration; StartDate
\* is added exactly when a start date is given and EndDate exactly when an
\* end date is given, so no date gives t, q and v alone and one date gives
\* that one parameter only.
C12_Parameters ==
    sent_params # NoCall =>
        /\ DOMAIN sent_params =
               {"t", "q", "v"}
                   \cup (IF Given(date_args.start_date) THEN {"StartDate"} ELSE {})
                   \cup (IF Given(date_args.end_date) THEN {"EndDate"} ELSE {})
        /\ sent_params["t"] = PyStr("tok123")
        /\ sent_params["q"] = PyStr("qid456")
        /\ sent_params["v"] = 3

C12_Witness ==
    /\ sent_params # NoCall
    /\ date_args.start_date = PyNone
    /\ date_args.end_date = PyStr(isoformat(PyDate(2024, 1, 31)))
    /\ DOMAIN sent_params = {"t", "q", "v", "EndDate"}

IsDigit(c) == c \in {"0", "1", "2", "3", "4", "5", "6", "7", "8", "9"}

\* The YYYY-MM-DD shape
IsIsoShape(s) ==
    /\ Len(s) = Len(isoformat(PyDate(2024, 1, 31)))
    /\ \A i \in 1..Len(s) : IF i \in {5, 8} THEN s[i] = "-" ELSE IsDigit(s[i])

IsHyphen(c) == c = "-"
IsNoHyphen(c) == c # "-"

\* A non-empty string argument that is not of the YYYY-MM-DD shape
OddString(d) == d.type = "str" /\ d.v # <<>> /\ ~IsIsoShape(d.v)

\* C13 as claimed: a string that is not of the YYYY-MM-DD shape is sent
\* unchanged.
C13_AsClaimed ==
    sent_params # NoCall =>
        /\ OddString(date_args.start_date)
               => sent_params["StartDate"] = date_args.start_date.v
        /\ OddString(date_args.end_date)
               => sent_params["EndDate"] = date_args.end_date.v

\* C13: a non-empty string that is not of the YYYY-MM-DD shape is not
\* rejected; it is sent with each hyphen removed and nothing else changed, so
\* it is sent unchanged exactly when it holds no hyphen.
C13_HyphensRemoved ==
    sent_params # NoCall =>
        /\ OddString(date_args.start_date) =>
               /\ "StartDate" \in DOMAIN sent_params
               /\ sent_params["StartDate"] = SelectSeq(date_args.start_date.v, IsNoHyphen)
               /\ sent_params["StartDate"] = date_args.start_date.v
                      <=> SelectSeq(date_args.start_date.v, IsHyphen) = <<>>
        /\ OddString(date_args.end_date) =>
               /\ "EndDate" \in DOMAIN sent_params
               /\ sent_params["EndDate"] = SelectSeq(date_args.end_date.v, IsNoHyphen)
               /\ sent_params["EndDate"] = date_args.end_date.v
                      <=> SelectSeq(date_args.end_date.v, IsHyphen) = <<>>

C13_Witness ==
    /\ sent_params # NoCall
    /\ date_args.start_date = PyStr(<<"3", "1", "-", "0", "1", "-", "2", "0", "2", "4">>)
    /\ date_args.end_date = PyStr(<<"2", "0", "2", "4", "/", "0", "1", "/", "3", "1">>)
    /\ sent_params["StartDate"] = <<"3", "1", "0", "1", "2", "0", "2", "4">>
    /\ sent_params["EndDate"] = date_args.end_date.v

-----------------------------------------------------------------------------
(* Further properties of the pipeline (Spec, FairSpec) *)

ConfigurationErrors ==
    {Raised("ValueError", "Missing required environment variables: TOKEN and QUERY_ID")}
SubmitTransportErrors ==
    {Raised("RuntimeError", "Failed to send flex request: " \o k) : k \in TransportFailures}
RejectedErrors == {Rejection(s) : s \in Texts \cup {"None"}}
InvalidResponseErrors ==
    {Raised("ValueError", "Invalid XML response: not well-formed"),
     Raised("ValueError", "No reference code found in response")}
FetchTransportErrors ==
    {Raised("RuntimeError", "Failed to download flex statement: " \o k) : k \in TransportFailures}
PersistenceErrors ==
    {Raised("RuntimeError", "Failed to save file: " \o c) : c \in {"mkdir", "open", "write"}}

ErrorKinds == {ConfigurationErrors, SubmitTransportErrors, RejectedErrors,
               InvalidResponseErrors, FetchTransportErrors, PersistenceErrors}

\* The kinds of error the step that failed may raise
KindsOfFailedStep ==
    IF disk_ops # <<>> THEN {PersistenceErrors}
    ELSE IF Len(calls) = 2 THEN {FetchTransportErrors}
    ELSE IF Len(calls) = 1
    THEN IF calls[1].reply.kind \in TransportFailures
         THEN {SubmitTransportErrors}
         ELSE {RejectedErrors, InvalidResponseErrors}
    ELSE {ConfigurationErrors}

\* C14 as claimed: a failed invocation ends with an error of exactly one kind,
\* the kind of the step that failed; a failure to make the output directory
\* is a persistence error like a failure to write the file.
C14_AsClaimed ==
    pc = "Failed" =>
        /\ Cardinality({k \in ErrorKinds : outcome \in k}) = 1
        /\ \E k \in KindsOfFailedStep : outcome \in k

\* C15: the command-line process exits with a status other than zero exactly
\* when get_flex_statement failed, in whatever step, and has then printed the
\* error's text; after a saved statement it exits with zero.
C15_ExitStatus ==
    process # Running =>
        /\ pc \in {"Saved", "Failed"}
        /\ process.status # 0 <=> pc = "Failed"
        /\ pc = "Failed" => /\ process.status = 1
                            /\ process.printed = "Error: " \o outcome.exc.msg
        /\ pc = "Saved" => process.status = 0

C15_Witness ==
    /\ process # Running
    /\ process.status = 1
    /\ outcome.state = "raised"
    /\ outcome.exc.type = "OSError"

\* The invocation failed in load_config, in the submit call, in decoding its
\* answer or in the get-statement call
FailedBeforeSave ==
    /\ pc = "Failed"
    /\ \/ Len(calls) < 2
       \/ calls[2].reply.kind \in TransportFailures

\* The write_bytes attempts carry the payload of this invocation's
\* get-statement call, to the requested path
WritesCarryPayload ==
    \A i \in 1..Len(disk_ops) :
        disk_ops[i].op = "write_bytes" =>
            /\ Len(calls) = 2
            /\ calls[2].url = GetUrl
            /\ calls[2].reply.kind = "ok"
            /\ disk_ops[i].data = calls[2].reply.content.v
            /\ disk_ops[i].path = RequestedPath

UntouchedBeforeSave ==
    (FailedBeforeSave \/ pc \in {"Idle", "Configured", "Submitted", "Waited", "Fetched"})
        => fs = fs_at_entry /\ disk_ops = <<>>

LastWithTag(body, tag) ==
    CHOOSE i \in WithTag(body, tag) : \A j \in WithTag(body, tag) : j <= i

\* C17: every invocation starts in Idle with nothing of an earlier one; its
\* submit call is made of the environment and its own arguments, and its
\* get-statement call carries the reference code of its own submit call,
\* whatever the earlier invocations obtained.
C17_Independent ==
    /\ Len(earlier) = invocation - 1
    /\ pc = "Idle" =>
           /\ calls = <<>> /\ sleeps = <<>> /\ disk_ops = <<>>
           /\ config = PyNone /\ reference_code = PyNone /\ content = PyNone
           /\ outcome = Pending
    /\ Len(calls) >= 1 =>
           /\ calls[1].url = SendUrl
           /\ calls[1].params["t"] = env.TOKEN
           /\ calls[1].params["q"] = env.QUERY_ID
           /\ ("StartDate" \in DOMAIN calls[1].params) = Given(args.start_date)
           /\ ("EndDate" \in DOMAIN calls[1].params) = Given(args.end_date)
    /\ Len(calls) >= 2 =>
           LET ack == calls[1].reply.text IN
           /\ calls[2].url = GetUrl
           /\ calls[2].params["t"] = env.TOKEN
           /\ calls[2].params["q"] =
                  PyStr(ack.children[LastWithTag(ack, "ReferenceCode")].content)

C17_Witness ==
    /\ invocation = 2
    /\ earlier = <<PyStr("Success")>>
    /\ Len(calls) = 2
    /\ calls[2].params["q"] = PyStr("ABC123")
    /\ fs_at_entry # EmptyDisk

C19_Bounded ==
    /\ Len(calls) <= 2
    /\ Len(sleeps) <= 1

C19_Ends == (pc \notin {"Saved", "Failed"}) ~> (pc \in {"Saved", "Failed"})

\* C19: every invocation ends, saved or failed, after at most two HTTP calls
\* and one pause.
C19_Terminates == []C19_Bounded /\ C19_Ends

C19_Witness ==
    /\ invocation = 2
    /\ pc = "Saved"
    /\ Len(calls) = 2
    /\ Len(sleeps) = 1

-----------------------------------------------------------------------------
(* Further properties of the decoder (SpecDecode) *)

\* C18: a well-formed body without Status is rejected, with status None,
\* even with a ReferenceCode; a reference code is returned only for a body
\* whose last Status is "Success" and whose last ReferenceCode has content, and
\* it is that content.
C18_Decoder ==
    decoded # NoCall =>
        /\ xml_text.wellformed /\ WithTag(xml_text, "Status") = {}
               => decoded = Rejection("None")
        /\ decoded.state = "returned" =>
               /\ xml_text.wellformed
               /\ WithTag(xml_text, "Status") # {}
               /\ xml_text.children[LastWithTag(xml_text, "Status")].content = "Success"
               /\ WithTag(xml_text, "ReferenceCode") # {}
               /\ xml_text.children[LastWithTag(xml_text, "ReferenceCode")].content # ""
               /\ decoded.value =
                      PyStr(xml_text.children[LastWithTag(xml_text, "ReferenceCode")].content)

C18_Witness ==
    /\ decoded = Rejection("None")
    /\ WithTag(xml_text, "Status") = {}
    /\ FieldOnce(xml_text, "ReferenceCode", "ABC123")

====
